---- MODULE Spec2Model ----
(***************************************************************************)
(* Model of src/src/App.jsx: the App component's catalog subscription      *)
(* (useEffect + onSnapshot), its search filter (filteredApps), the         *)
(* selection of a record for the detail overlay and what is rendered.      *)
(*                                                                         *)
(* Strings are sequences of one-character strings, so that toLowerCase     *)
(* and includes are computed and not assumed.  A JavaScript object is a    *)
(* function from its own field names to values; an absent field is a name  *)
(* outside the function's domain.  null is the empty tuple <<>> and a      *)
(* present value v is <<v>> for `error`, `selectedApp`.                    *)
(*                                                                         *)
(* The Firestore client is outside the repository.  It is modelled as an   *)
(* environment that may call either callback passed to onSnapshot while    *)
(* the listener is registered (between onSnapshot and unsubscribe) and     *)
(* never afterwards.  The component itself does nothing else to stop it.   *)
(***************************************************************************)
EXTENDS Integers, Sequences, FiniteSets, TLC

VARIABLES apps, loading, error, searchTerm, selectedApp, filteredApps,
          phase, listening, cleanup, subs, unsubCalls, notified, lastEvent

vars == <<apps, loading, error, searchTerm, selectedApp, filteredApps,
          phase, listening, cleanup, subs, unsubCalls, notified, lastEvent>>

(* ------------------------------ bounds --------------------------------- *)
MaxLen == 2
MaxApps == 3
MaxDocs == 3

(* ------------------------------ inputs --------------------------------- *)
None == <<>>

Chars == {"a", "A", "b"}

Strings(n) == UNION {[1..k -> Chars] : k \in 0..n}

SearchTerms == Strings(MaxLen)

LiveTerms == {<<>>, <<"a">>, <<"B">>}

Msgs == {"permission-denied", "unavailable"}

DocIds == {"1", "2", "3"}

NameValues == {<<>>, <<"A", "b">>}

CategoryValues == {<<"b", "a">>}

AllData ==
  UNION { { [f \in F |-> IF f = "name" THEN n ELSE c]
              : n \in NameValues, c \in CategoryValues }
          : F \in SUBSET {"name", "category"} }

AllDocs == [id : DocIds, data : AllData]

LiveDocs ==
  { [id |-> "1", data |-> [f \in {"name", "category"} |->
                             IF f = "name" THEN <<"A", "b">> ELSE <<"b", "a">>]],
    [id |-> "1", data |-> [f \in {"name"} |-> <<"b">>]],
    [id |-> "2", data |-> [f \in {"category"} |-> <<"b", "a">>]],
    [id |-> "3", data |-> [f \in {} |-> <<>>]] }

SnapshotsOf(D, n) ==
  { s \in UNION {[1..k -> D] : k \in 0..n} :
      \A i, j \in 1..Len(s) : i # j => s[i].id # s[j].id }

AllSnapshots == SnapshotsOf(AllDocs, MaxApps)

LiveSnapshots == SnapshotsOf(LiveDocs, MaxDocs)

(* --------------------------- pure functions ---------------------------- *)
LowerChar(c) ==
  CASE c = "A" -> "a"
    [] c = "B" -> "b"
    [] OTHER -> c

toLowerCase(s) == [i \in 1..Len(s) |-> LowerChar(s[i])]

includes(s, t) ==
  \E i \in 0..(Len(s) - Len(t)) : SubSeq(s, i + 1, i + Len(t)) = t

Truthy(app, f) == f \in DOMAIN app /\ app[f] # <<>>

Matches_CaseSensitive(app, q) ==
  \/ Truthy(app, "name") /\ includes(app["name"], q)
  \/ Truthy(app, "category") /\ includes(app["category"], q)

Matches(app, q) ==
  \/ Truthy(app, "name") /\ includes(toLowerCase(app["name"]), toLowerCase(q))
  \/ Truthy(app, "category")
       /\ includes(toLowerCase(app["category"]), toLowerCase(q))

Filter_Ranked(L, q) ==
  SelectSeq(L, LAMBDA app :
      Truthy(app, "name") /\ includes(toLowerCase(app["name"]), toLowerCase(q)))
  \o SelectSeq(L, LAMBDA app :
      /\ ~(Truthy(app, "name")
            /\ includes(toLowerCase(app["name"]), toLowerCase(q)))
      /\ Matches(app, q))

Filter(L, q) == SelectSeq(L, LAMBDA app : Matches(app, q))

MapDoc(doc) ==
  [f \in {"id"} \cup DOMAIN doc.data |->
     IF f \in DOMAIN doc.data THEN doc.data[f] ELSE doc.id]

MapDocs(docs) == [i \in 1..Len(docs) |-> MapDoc(docs[i])]

Elems(s) == {s[i] : i \in 1..Len(s)}

(* ------------------------------ rendering ------------------------------ *)
Render == filteredApps' = Filter(apps', searchTerm')

ErrorBannerShown == error # None /\ error[1] # ""

SpinnerShown == loading

GridShown == ~loading

EmptyStateShown == ~loading /\ Len(filteredApps) = 0

ModalShown == selectedApp # None

(* ------------------------------- state --------------------------------- *)
Event(k, a) == [kind |-> k, arg |-> a]

Init ==
  /\ apps = <<>>
  /\ loading = TRUE
  /\ error = None
  /\ searchTerm = <<>>
  /\ selectedApp = None
  /\ filteredApps = Filter(<<>>, <<>>)
  /\ phase = "rendered"
  /\ listening = FALSE
  /\ cleanup = FALSE
  /\ subs = 0
  /\ unsubCalls = 0
  /\ notified = FALSE
  /\ lastEvent = Event("init", <<>>)

(* useEffect body, onSnapshot returns the unsubscribe function *)
EffectSubscribes ==
  /\ phase = "rendered"
  /\ phase' = "mounted"
  /\ listening' = TRUE
  /\ cleanup' = TRUE
  /\ subs' = subs + 1
  /\ lastEvent' = Event("subscribe", <<>>)
  /\ UNCHANGED <<apps, loading, error, searchTerm, selectedApp, unsubCalls,
                 notified>>
  /\ Render

(* useEffect body, collection() or onSnapshot() throws: the catch branch *)
EffectThrows(m) ==
  /\ phase = "rendered"
  /\ phase' = "mounted"
  /\ error' = <<m>>
  /\ loading' = FALSE
  /\ notified' = TRUE
  /\ lastEvent' = Event("setupError", m)
  /\ UNCHANGED <<apps, searchTerm, selectedApp, listening, cleanup, subs,
                 unsubCalls>>
  /\ Render

OnSnapshot_Append(docs) ==
  /\ listening
  /\ apps' = apps \o MapDocs(docs)
  /\ loading' = FALSE
  /\ notified' = TRUE
  /\ lastEvent' = Event("snapshot", docs)
  /\ UNCHANGED <<error, searchTerm, selectedApp, phase, listening, cleanup,
                 subs, unsubCalls>>
  /\ Render

OnSnapshot_LiveSelection(docs) ==
  /\ listening
  /\ apps' = MapDocs(docs)
  /\ loading' = FALSE
  /\ notified' = TRUE
  /\ lastEvent' = Event("snapshot", docs)
  /\ selectedApp' = IF selectedApp # None /\ selectedApp[1] \notin Elems(apps')
                    THEN None ELSE selectedApp
  /\ UNCHANGED <<error, searchTerm, phase, listening, cleanup, subs,
                 unsubCalls>>
  /\ Render

OnSnapshot(docs) ==
  /\ listening
  /\ apps' = MapDocs(docs)
  /\ loading' = FALSE
  /\ notified' = TRUE
  /\ lastEvent' = Event("snapshot", docs)
  /\ UNCHANGED <<error, searchTerm, selectedApp, phase, listening, cleanup,
                 subs, unsubCalls>>
  /\ Render

OnError_ClearsApps(m) ==
  /\ listening
  /\ error' = <<m>>
  /\ loading' = FALSE
  /\ apps' = <<>>
  /\ notified' = TRUE
  /\ lastEvent' = Event("error", m)
  /\ UNCHANGED <<searchTerm, selectedApp, phase, listening, cleanup, subs,
                 unsubCalls>>
  /\ Render

OnError_KeepsLoading(m) ==
  /\ listening
  /\ error' = <<m>>
  /\ notified' = TRUE
  /\ lastEvent' = Event("error", m)
  /\ UNCHANGED <<apps, loading, searchTerm, selectedApp, phase, listening,
                 cleanup, subs, unsubCalls>>
  /\ Render

OnError(m) ==
  /\ listening
  /\ error' = <<m>>
  /\ loading' = FALSE
  /\ notified' = TRUE
  /\ lastEvent' = Event("error", m)
  /\ UNCHANGED <<apps, searchTerm, selectedApp, phase, listening, cleanup,
                 subs, unsubCalls>>
  /\ Render

SetSearchTerm(t) ==
  /\ phase = "mounted"
  /\ searchTerm' = t
  /\ lastEvent' = Event("search", t)
  /\ UNCHANGED <<apps, loading, error, selectedApp, phase, listening, cleanup,
                 subs, unsubCalls, notified>>
  /\ Render

Select(app) ==
  /\ phase = "mounted"
  /\ GridShown
  /\ app \in Elems(filteredApps)
  /\ selectedApp' = <<app>>
  /\ lastEvent' = Event("select", app)
  /\ UNCHANGED <<apps, loading, error, searchTerm, phase, listening, cleanup,
                 subs, unsubCalls, notified>>
  /\ Render

Close ==
  /\ phase = "mounted"
  /\ ModalShown
  /\ selectedApp' = None
  /\ lastEvent' = Event("close", <<>>)
  /\ UNCHANGED <<apps, loading, error, searchTerm, phase, listening, cleanup,
                 subs, unsubCalls, notified>>
  /\ Render

Unmount_NoTeardown ==
  /\ phase = "mounted"
  /\ phase' = "unmounted"
  /\ lastEvent' = Event("unmount", <<>>)
  /\ UNCHANGED <<apps, loading, error, searchTerm, selectedApp, filteredApps,
                 listening, cleanup, subs, unsubCalls, notified>>

Unmount ==
  /\ phase = "mounted"
  /\ phase' = "unmounted"
  /\ IF cleanup
       THEN listening' = FALSE /\ unsubCalls' = unsubCalls + 1
       ELSE UNCHANGED <<listening, unsubCalls>>
  /\ lastEvent' = Event("unmount", <<>>)
  /\ UNCHANGED <<apps, loading, error, searchTerm, selectedApp, filteredApps,
                 cleanup, subs, notified>>

Next ==
  \/ EffectSubscribes
  \/ \E m \in Msgs : EffectThrows(m)
  \/ \E docs \in LiveSnapshots : OnSnapshot(docs)
  \/ \E m \in Msgs : OnError(m)
  \/ \E t \in LiveTerms : SetSearchTerm(t)
  \/ \E app \in Elems(filteredApps) : Select(app)
  \/ Close
  \/ Unmount

Spec == Init /\ [][Next]_vars

(* The filter as a pure function: the component is mounted and holds any   *)
(* record list a snapshot can deliver, the search box takes any term.      *)
InitFilter ==
  \E docs \in AllSnapshots, t \in SearchTerms :
    /\ apps = MapDocs(docs)
    /\ loading = FALSE
    /\ error = None
    /\ searchTerm = t
    /\ selectedApp = None
    /\ filteredApps = Filter(MapDocs(docs), t)
    /\ phase = "mounted"
    /\ listening = TRUE
    /\ cleanup = TRUE
    /\ subs = 1
    /\ unsubCalls = 0
    /\ notified = TRUE
    /\ lastEvent = Event("search", t)

NextFilter == \E t \in SearchTerms : SetSearchTerm(t)

SpecFilter == InitFilter /\ [][NextFilter]_vars

(* ------------------------- properties of the filter -------------------- *)
CasePairs == {<<"a", "A">>, <<"b", "B">>}

EqIgnoreCase(c, d) == c = d \/ <<c, d>> \in CasePairs \/ <<d, c>> \in CasePairs

ContainsIgnoreCase(s, q) ==
  \E i \in 0..(Len(s) - Len(q)) :
    \A j \in 1..Len(q) : EqIgnoreCase(s[i + j], q[j])

Present(app, f) == f \in DOMAIN app

RECURSIVE IsSubseq(_, _)
IsSubseq(s, t) ==
  IF s = <<>> THEN TRUE
  ELSE IF t = <<>> THEN FALSE
  ELSE IF Head(s) = Head(t) THEN IsSubseq(Tail(s), Tail(t))
  ELSE IsSubseq(s, Tail(t))

(* C1: with an empty search term the filtered list equals the record list, *)
(* records without name and category included.                             *)
C1_EmptyTermIsIdentity == searchTerm = <<>> => filteredApps = apps

(* C2: for a non-empty search term q a record of the list is in the        *)
(* filtered list iff its name is present and contains q ignoring case, or  *)
(* its category is present and contains q ignoring case.                   *)
C2_IncludedIffContains ==
  searchTerm # <<>> =>
    \A i \in 1..Len(apps) :
      (apps[i] \in Elems(filteredApps)) <=>
        \/ Present(apps[i], "name")
             /\ ContainsIgnoreCase(apps[i]["name"], searchTerm)
        \/ Present(apps[i], "category")
             /\ ContainsIgnoreCase(apps[i]["category"], searchTerm)

C2_Witness ==
  /\ searchTerm # <<>>
  /\ \E a \in Elems(filteredApps) :
       /\ Present(a, "name")
       /\ ~includes(a["name"], searchTerm)
       /\ ~Present(a, "category")
  /\ \E a \in Elems(apps) :
       ~Present(a, "name") /\ ~Present(a, "category")
         /\ a \notin Elems(filteredApps)

(* C10: the filtered list is a subsequence of the record list: only        *)
(* records of the list, in the same relative order.                        *)
C10_FilteredIsSubsequence == IsSubseq(filteredApps, apps)

C10_Witness ==
  /\ searchTerm # <<>>
  /\ Len(apps) = 3
  /\ Len(filteredApps) = 2
  /\ filteredApps[1] = apps[1]
  /\ filteredApps[2] = apps[3]
  /\ ~Present(filteredApps[1], "name")
  /\ Present(filteredApps[2], "name")

(* ----------------------- properties of the lifecycle ------------------- *)
Failure(e) == e.kind \in {"error", "setupError"}

(* C3: after every snapshot event error is absent and loading is false.    *)
C3_SnapshotClearsFlags ==
  lastEvent.kind = "snapshot" => error = None /\ loading = FALSE

(* C4: a subscription failure with message m (error callback or setup      *)
(* exception) leaves error = m, loading = false and the record list as it  *)
(* was; the component stays mounted and no new subscription is started.    *)
C4_FailureKeepsList ==
  [][Failure(lastEvent') =>
       /\ error' = <<lastEvent'.arg>>
       /\ loading' = FALSE
       /\ apps' = apps
       /\ phase' = "mounted"
       /\ subs' = subs]_vars

C4_Witness ==
  /\ lastEvent.kind = "error"
  /\ error = <<lastEvent.arg>>
  /\ ~loading
  /\ apps # <<>>

(* C5: after every snapshot event the record list is exactly the snapshot's *)
(* documents, each as its id plus its fields, in the snapshot's order.      *)
C5_SnapshotReplacesList ==
  lastEvent.kind = "snapshot" =>
    /\ Len(apps) = Len(lastEvent.arg)
    /\ \A i \in 1..Len(apps) :
         /\ DOMAIN apps[i] = {"id"} \cup DOMAIN lastEvent.arg[i].data
         /\ apps[i]["id"] = lastEvent.arg[i].id
         /\ \A f \in DOMAIN lastEvent.arg[i].data :
              apps[i][f] = lastEvent.arg[i].data[f]

C5_Witness ==
  /\ lastEvent.kind = "snapshot"
  /\ Len(apps) = 3
  /\ selectedApp # None
  /\ selectedApp[1] \notin Elems(apps)

(* C6: a selection is taken from the displayed records, holds at most one  *)
(* record and is changed by nothing but a selection or the close action:   *)
(* snapshots, failures and search-term changes leave it as captured.       *)
C6_SelectionHeld ==
  /\ [](Len(selectedApp) <= 1)
  /\ [][lastEvent'.kind = "select" =>
          selectedApp' = <<lastEvent'.arg>> /\ lastEvent'.arg \in Elems(apps)]_vars
  /\ [][lastEvent'.kind \notin {"select", "close"} =>
          selectedApp' = selectedApp]_vars
  /\ [][lastEvent'.kind = "close" => selectedApp' = None]_vars

C6_Witness ==
  /\ lastEvent.kind = "snapshot"
  /\ selectedApp # None
  /\ selectedApp[1] \notin Elems(apps)
  /\ \E a \in Elems(apps) : a["id"] = selectedApp[1]["id"]
  /\ ModalShown

(* C7: the subscription established on activation is torn down exactly     *)
(* once at deactivation, and after deactivation no notification changes    *)
(* the record list, loading or error.                                      *)
C7_TeardownOnce ==
  /\ [](phase # "unmounted" => unsubCalls = 0)
  /\ [](phase = "unmounted" => unsubCalls = subs /\ ~listening)
  /\ [][phase = "unmounted" => UNCHANGED <<apps, loading, error>>]_vars

C7_Witness ==
  /\ phase = "unmounted"
  /\ subs = 1
  /\ unsubCalls = 1
  /\ error # None
  /\ apps # <<>>

(* C8: loading is true exactly until the first snapshot or failure and     *)
(* false ever after; an error is never present while loading.              *)
C8_LoadingUntilFirstEvent ==
  /\ [](loading <=> ~notified)
  /\ [][~loading => ~loading']_vars
  /\ [](error # None => ~loading)
  /\ [](~(SpinnerShown /\ ErrorBannerShown))

C8_Witness ==
  /\ lastEvent.kind = "search"
  /\ error # None
  /\ apps # <<>>
  /\ ~loading

(* C9: the view is in exactly one of loading / error / ready-empty /       *)
(* ready-populated; the empty-state message is shown exactly when the      *)
(* filtered list is empty, loading is false and no error is present.       *)
C9_FourViewStates ==
  /\ EmptyStateShown <=> (Len(filteredApps) = 0 /\ ~loading /\ error = None)
  /\ ~(EmptyStateShown /\ ErrorBannerShown)
  /\ Cardinality({k \in {"loading", "error", "empty", "populated"} :
        \/ k = "loading" /\ SpinnerShown
        \/ k = "error" /\ ErrorBannerShown
        \/ k = "empty" /\ EmptyStateShown
        \/ k = "populated" /\ GridShown /\ Len(filteredApps) > 0}) = 1

====
